---- MODULE Spec2Model ----
(***************************************************************************)
(* Model of the population-level dashboard core of src/app.py:             *)
(*   read_data / the four module-level tables, _filter_data, filter_data,  *)
(*   _make_graph and the update callback.                                  *)
(*                                                                         *)
(* Encoding of numbers.  The numbers of the source are float64; the model  *)
(* holds each kind as an integer count of a unit in which the code's        *)
(* arithmetic on it is exact:                                               *)
(*   - a parameter (match_rt, ..., roi) is a count of hundredths: 0.03 is  *)
(*     3, 0.5 is 50, 0.67 is 67, 1 is 100.  The code only compares them.   *)
(*   - a money value of the tables, of sum_df and of agg_df is a count of  *)
(*     quarters: -1.25 is -5, 0.75 is 3, 100 is 400.  Every k/4 of this    *)
(*     size is a float64, and so is every sum of such values, so that the  *)
(*     float64 additions of cumsum are the integer additions here.         *)
(*   - a value that round(1) returns (the table update returns, the y of   *)
(*     the traces) is a count of tenths: -1.2 is -12.  round(1) computes   *)
(*     rint(x * 10) / 10; for x = k/4 the product is exact and rint        *)
(*     rounds a half to the even integer.                                  *)
(* The phaseout selector (1, 2) is an integer of the source, kept as is.   *)
(*                                                                         *)
(* Encoding of a pandas DataFrame: a record                                *)
(*   [columns |-> sequence of column names, in column order,               *)
(*    index   |-> sequence of row labels, in row order,                    *)
(*    data    |-> sequence of rows, each a function column name -> value]  *)
(***************************************************************************)
EXTENDS Integers, Sequences, FiniteSets, TLC

\* ------------------------------------------------------------------------
\* Bounds of the model
\* ------------------------------------------------------------------------

\* number of year columns of a table (41 in the data the spec describes)
NumYears == 2

\* largest number of rows of a loaded table
MaxRows == 2

\* ------------------------------------------------------------------------
\* Column names
\* ------------------------------------------------------------------------

\* the six parameter columns, in the order the source names them
ParamCols == <<"match_rt", "phaseout_start", "phaseout_rt", "takeup_rt", "leakage", "roi">>

YearNames == <<"0", "1", "2", "3", "4", "5", "6", "7">>

\* the year columns of the tables, in column order
YearCols == SubSeq(YearNames, 1, NumYears)

\* the columns of a loaded table: parameters, years, then Total
TableCols == ParamCols \o YearCols \o <<"Total">>

Range(s) == {s[i] : i \in 1..Len(s)}

\* the row labels filter_data gives the stacked frame
MetricLabels ==
    << "Budget Estimate",
       "Wealth Generated for <25p",
       "Wealth Generated for 25-50p",
       "Total Wealth Generated" >>

NoFrame == [columns |-> <<>>, index |-> <<>>, data |-> <<>>]

\* ------------------------------------------------------------------------
\* State
\* ------------------------------------------------------------------------
VARIABLES
    cost_df, total_wealth_df, wealth_25_df, wealth_25_50_df,  \* module-level tables
    request,          \* arguments of the last update call, <<>> before the first
    lookup,           \* <<arguments of the filter_data call>>, <<>> if none was made
    cost_filter, total_wealth_filter, wealth_25_filter, wealth_25_50_filter,
    sum_df, agg_df,   \* locals of filter_data when it returned or raised
    fig,              \* the figure _make_graph built
    data_table, columns,  \* what update returned
    raised,           \* name of the exception update raised, "" if it returned
    answered_after_failure
                      \* history: the last request returned a table and the
                      \* request before it raised

tables == <<cost_df, total_wealth_df, wealth_25_df, wealth_25_50_df>>

outputs ==
    << lookup, cost_filter, total_wealth_filter, wealth_25_filter,
       wealth_25_50_filter, sum_df, agg_df, fig, data_table, columns, raised >>

vars == <<tables, request, outputs, answered_after_failure>>

\* ------------------------------------------------------------------------
\* The DataFrame operations the source calls
\* ------------------------------------------------------------------------

\* df.loc[mask]: the rows at the positions in keep, in their order, labels kept
Loc(df, keep) ==
    LET pos == SelectSeq([i \in 1..Len(df.data) |-> i], LAMBDA i : i \in keep)
    IN  [columns |-> df.columns,
         index   |-> [j \in 1..Len(pos) |-> df.index[pos[j]]],
         data    |-> [j \in 1..Len(pos) |-> df.data[pos[j]]]]

RECURSIVE ConcatAll(_)
ConcatAll(ss) == IF ss = <<>> THEN <<>> ELSE Head(ss) \o ConcatAll(Tail(ss))

\* pd.concat(frames) of frames with the same columns: rows stacked in list order
concat(frames) ==
    [columns |-> frames[1].columns,
     index   |-> ConcatAll([i \in 1..Len(frames) |-> frames[i].index]),
     data    |-> ConcatAll([i \in 1..Len(frames) |-> frames[i].data])]

\* df.drop(labels, axis=1) for labels that are columns of df
drop(df, labels) ==
    LET left == SelectSeq(df.columns, LAMBDA c : c \notin Range(labels))
    IN  [columns |-> left,
         index   |-> df.index,
         data    |-> [r \in 1..Len(df.data) |-> [c \in Range(left) |-> df.data[r][c]]]]

RECURSIVE RowSum(_, _, _)
RowSum(row, cols, j) == IF j = 0 THEN 0 ELSE RowSum(row, cols, j - 1) + row[cols[j]]

\* position of column c in the column order cols
ColPos(cols, c) == CHOOSE j \in 1..Len(cols) : cols[j] = c

\* a plausible slip: the sum runs down the rows (axis=0) instead of along a row
cumsum_axis0(df) ==
    [df EXCEPT !.data =
        [r \in 1..Len(df.data) |->
            [c \in Range(df.columns) |->
                RowSum([q \in 1..r |-> df.data[q][c]], [q \in 1..r |-> q], r)]]]

\* df.cumsum(axis=1): running sum along each row, in column order
cumsum(df) ==
    [df EXCEPT !.data =
        [r \in 1..Len(df.data) |->
            [c \in Range(df.columns) |->
                RowSum(df.data[r], df.columns, ColPos(df.columns, c))]]]

Abs(x) == IF x < 0 THEN -x ELSE x

\* a plausible slip: the sign normalisation is left out
abs_missing(df) == df

\* df.abs(): element-wise absolute value
abs(df) ==
    [df EXCEPT !.data =
        [r \in 1..Len(df.data) |-> [c \in Range(df.columns) |-> Abs(df.data[r][c])]]]

\* a plausible slip: halves rounded away from zero instead of to the even digit
RoundHalfAway(x) ==
    LET a == Abs(x)
        m == (5 * a + 1) \div 2
    IN  IF x < 0 THEN -m ELSE m

\* round(1) of one value: x quarters are 5x/2 tenths; the nearest whole
\* number of tenths, a half going to the even one, as rint rounds
Round1(x) ==
    LET n == 5 * x
        q == n \div 2
    IN  IF n % 2 = 0 THEN q
        ELSE IF q % 2 = 0 THEN q ELSE q + 1

\* df.round(1)
round(df) ==
    [df EXCEPT !.data =
        [r \in 1..Len(df.data) |-> [c \in Range(df.columns) |-> Round1(df.data[r][c])]]]

\* df.reset_index(): the row labels become a first column named "index",
\* the rows are numbered from 0
reset_index(df) ==
    [columns |-> <<"index">> \o df.columns,
     index   |-> [r \in 1..Len(df.data) |-> r - 1],
     data    |-> [r \in 1..Len(df.data) |->
                    [c \in Range(df.columns) \cup {"index"} |->
                        IF c = "index" THEN df.index[r] ELSE df.data[r][c]]]]

\* df.rename(columns={old: new})
rename(df, old, new) ==
    LET nm(c) == IF c = old THEN new ELSE c
    IN  [columns |-> [j \in 1..Len(df.columns) |-> nm(df.columns[j])],
         index   |-> df.index,
         data    |-> [r \in 1..Len(df.data) |->
                        [c \in {nm(d) : d \in Range(df.columns)} |->
                            df.data[r][IF c = new THEN old ELSE c]]]]

\* df.loc[label] for a label that names exactly one row
LocLabel(df, label) == df.data[CHOOSE r \in 1..Len(df.index) : df.index[r] = label]

\* ------------------------------------------------------------------------
\* The functions of src/app.py
\* ------------------------------------------------------------------------

\* a plausible slip: the roi condition of the mask is left out
_filter_data_no_roi(df, match_rt, phaseout_start, phaseout_rt, takeup_rt, leakage, roi) ==
    Loc(df, {i \in 1..Len(df.data) :
                /\ df.data[i]["match_rt"] = match_rt
                /\ df.data[i]["phaseout_start"] = phaseout_start
                /\ df.data[i]["phaseout_rt"] = phaseout_rt
                /\ df.data[i]["takeup_rt"] = takeup_rt
                /\ df.data[i]["leakage"] = leakage})

\* _filter_data: the rows of df whose six parameter columns equal the arguments
_filter_data(df, match_rt, phaseout_start, phaseout_rt, takeup_rt, leakage, roi) ==
    Loc(df, {i \in 1..Len(df.data) :
                /\ df.data[i]["match_rt"] = match_rt
                /\ df.data[i]["phaseout_start"] = phaseout_start
                /\ df.data[i]["phaseout_rt"] = phaseout_rt
                /\ df.data[i]["takeup_rt"] = takeup_rt
                /\ df.data[i]["leakage"] = leakage
                /\ df.data[i]["roi"] = roi})

\* a plausible slip: the rows are filtered in place (df.drop(..., inplace=True)
\* of the rows outside the mask), which leaves df with its matching rows only
df_after_filter_in_place(df, match_rt, phaseout_start, phaseout_rt, takeup_rt, leakage, roi) ==
    Loc(df, {i \in 1..Len(df.data) :
                /\ df.data[i]["match_rt"] = match_rt
                /\ df.data[i]["phaseout_start"] = phaseout_start
                /\ df.data[i]["phaseout_rt"] = phaseout_rt
                /\ df.data[i]["takeup_rt"] = takeup_rt
                /\ df.data[i]["leakage"] = leakage
                /\ df.data[i]["roi"] = roi})

\* the frame df as a call of _filter_data leaves it: the comparisons, & and
\* df.loc[mask] each build a new object and write nothing to df
df_after_filter_data(df, match_rt, phaseout_start, phaseout_rt, takeup_rt, leakage, roi) ==
    df

NoFig == [data |-> <<>>]

\* _make_graph: two traces over the columns of df, each rounded to one decimal
_make_graph(df) ==
    LET y(label) ==
            [j \in 1..Len(df.columns) |-> Round1(LocLabel(df, label)[df.columns[j]])]
    IN  [data |->
            << [name |-> "Wealth (bn)", x |-> df.columns, y |-> y("Total Wealth Generated")],
               [name |-> "Cost (bn)", x |-> df.columns, y |-> y("Budget Estimate")] >>]

\* a plausible slip: the frames stacked in the order they were filtered
stack_order_as_filtered(cost_f, total_wealth_f, wealth_25_f, wealth_25_50_f) ==
    <<cost_f, total_wealth_f, wealth_25_f, wealth_25_50_f>>

\* the list filter_data hands to pd.concat
stack_order(cost_f, total_wealth_f, wealth_25_f, wealth_25_50_f) ==
    <<cost_f, wealth_25_f, wealth_25_50_f, total_wealth_f>>

\* a plausible slip: the Total column is not dropped
aggregate_keep_total(df) == abs(cumsum(df))

\* agg_df of filter_data: cumsum(axis=1), abs, then the Total column dropped
aggregate(df) == drop(abs(cumsum(df)), <<"Total">>)

\* filter_data: its locals, its result, the exception it raises ("" if none)
\* and the module-level tables as it leaves them.  Assigning four labels to a
\* frame that has not four rows raises ValueError.  The frames it writes or
\* rebinds (the index assignment of line 106, drop, cumsum, abs, round) are the
\* one pd.concat returned and frames made from it, never a table.
filter_data(match_rt, phaseout_start, phaseout_rt, takeup_rt, leakage, roi) ==
    LET cost_f == _filter_data(cost_df, match_rt, phaseout_start, phaseout_rt,
                               takeup_rt, leakage, roi)
        total_wealth_f == _filter_data(total_wealth_df, match_rt, phaseout_start,
                                       phaseout_rt, takeup_rt, leakage, roi)
        wealth_25_f == _filter_data(wealth_25_df, match_rt, phaseout_start,
                                    phaseout_rt, takeup_rt, leakage, roi)
        wealth_25_50_f == _filter_data(wealth_25_50_df, match_rt, phaseout_start,
                                       phaseout_rt, takeup_rt, leakage, roi)
        stacked == concat(stack_order(cost_f, total_wealth_f, wealth_25_f, wealth_25_50_f))
        labelled == [stacked EXCEPT !.index = MetricLabels]
        summed == drop(labelled, ParamCols)
        agg == aggregate(summed)
        filters == [cost_filter |-> cost_f, total_wealth_filter |-> total_wealth_f,
                    wealth_25_filter |-> wealth_25_f, wealth_25_50_filter |-> wealth_25_50_f]
        after ==
            [cost_df |-> df_after_filter_data(cost_df, match_rt, phaseout_start,
                                              phaseout_rt, takeup_rt, leakage, roi),
             total_wealth_df |-> df_after_filter_data(total_wealth_df, match_rt,
                                    phaseout_start, phaseout_rt, takeup_rt, leakage, roi),
             wealth_25_df |-> df_after_filter_data(wealth_25_df, match_rt,
                                    phaseout_start, phaseout_rt, takeup_rt, leakage, roi),
             wealth_25_50_df |-> df_after_filter_data(wealth_25_50_df, match_rt,
                                    phaseout_start, phaseout_rt, takeup_rt, leakage, roi)]
    IN  IF Len(stacked.data) # Len(MetricLabels)
        THEN [raised |-> "ValueError", tables |-> after, filters |-> filters,
              sum_df |-> stacked,
              agg_df |-> NoFrame, fig |-> NoFig, sum_table |-> NoFrame]
        ELSE [raised |-> "", tables |-> after, filters |-> filters, sum_df |-> summed,
              agg_df |-> agg, fig |-> _make_graph(agg),
              sum_table |-> reset_index(round(summed))]

\* a plausible slip: the fast phaseout keeps the slow rate
phaseout_params_fast_rate(phaseout) ==
    IF phaseout = 1 THEN <<<<50, 3>>>>
    ELSE IF phaseout = 2 THEN <<<<67, 3>>>>
    ELSE <<>>

\* the if/elif of update: <<(phaseout_start, phaseout_rt)>>, or <<>> when
\* neither branch runs and the two names stay unbound
phaseout_params(phaseout) ==
    IF phaseout = 1 THEN <<<<50, 3>>>>
    ELSE IF phaseout = 2 THEN <<<<67, 5>>>>
    ELSE <<>>

NoFilters ==
    [cost_filter |-> NoFrame, total_wealth_filter |-> NoFrame,
     wealth_25_filter |-> NoFrame, wealth_25_50_filter |-> NoFrame]

\* update: what the callback leaves behind.  Reading the unbound
\* phaseout_start raises UnboundLocalError before filter_data is called.
update(match, phaseout, leakage, takeup, rate) ==
    LET pp == phaseout_params(phaseout)
    IN  IF pp = <<>>
        THEN [raised |-> "UnboundLocalError", lookup |-> <<>>,
              tables |-> [cost_df |-> cost_df, total_wealth_df |-> total_wealth_df,
                          wealth_25_df |-> wealth_25_df,
                          wealth_25_50_df |-> wealth_25_50_df],
              filters |-> NoFilters,
              sum_df |-> NoFrame, agg_df |-> NoFrame, fig |-> NoFig,
              data_table |-> <<>>, columns |-> <<>>]
        ELSE LET args == [match_rt |-> match, phaseout_start |-> pp[1][1],
                          phaseout_rt |-> pp[1][2], takeup_rt |-> takeup,
                          leakage |-> leakage, roi |-> rate]
                 fd == filter_data(args.match_rt, args.phaseout_start, args.phaseout_rt,
                                   args.takeup_rt, args.leakage, args.roi)
                 sum_table == rename(fd.sum_table, "index", "")
             IN  IF fd.raised # ""
                 THEN [raised |-> fd.raised, lookup |-> <<args>>,
                       tables |-> fd.tables, filters |-> fd.filters,
                       sum_df |-> fd.sum_df, agg_df |-> fd.agg_df, fig |-> fd.fig,
                       data_table |-> <<>>, columns |-> <<>>]
                 ELSE [raised |-> "", lookup |-> <<args>>,
                       tables |-> fd.tables, filters |-> fd.filters,
                       sum_df |-> fd.sum_df, agg_df |-> fd.agg_df, fig |-> fd.fig,
                       data_table |-> sum_table.data,
                       columns |-> [j \in 1..Len(sum_table.columns) |->
                                       [name |-> sum_table.columns[j],
                                        id |-> sum_table.columns[j]]]]

\* ------------------------------------------------------------------------
\* The loaded tables
\* ------------------------------------------------------------------------

\* read_data: the frame pd.read_csv builds from the rows of a file, rows
\* numbered from 0
read_data(rows) ==
    [columns |-> TableCols,
     index   |-> [i \in 1..Len(rows) |-> i - 1],
     data    |-> rows]

Key(match_rt, phaseout_start, phaseout_rt, takeup_rt, leakage, roi) ==
    [match_rt |-> match_rt, phaseout_start |-> phaseout_start,
     phaseout_rt |-> phaseout_rt, takeup_rt |-> takeup_rt,
     leakage |-> leakage, roi |-> roi]

\* parameter combinations the sample files hold: two that differ in roi only,
\* and one of the fast phaseout
SampleKeys == {Key(3, 50, 3, 85, 30, 3), Key(3, 50, 3, 85, 30, 5), Key(3, 67, 5, 85, 30, 3)}

\* a file holds a combination at most once: sequences of distinct keys
KeySeqs ==
    UNION {{ks \in [1..n -> SampleKeys] : \A i, j \in 1..n : i # j => ks[i] # ks[j]}
             : n \in 0..MaxRows}

\* per-year values (quarters: -1.25, -0.25, 0, 0.75): negative, zero and
\* positive, whole tenths and
\* values that round(1) changes
YearVals == {-5, -1, 0, 3}

\* the year series of a row: every pair of values, alternating over the years
SeriesSet == {[t \in 1..NumYears |-> IF t % 2 = 1 THEN a ELSE b] : a, b \in YearVals}

TotalVals == {0, 777}

\* the files are numbered in the order the source reads them: 1 cost.csv,
\* 2 total_wealth.csv, 3 wealth_25.csv, 4 wealth_25_50.csv.
\* 0: every file holds every combination; m: file m lacks the last one
Incomplete == {0, 3}

\* what sets the files and their rows apart in the sample data
FileOffset == <<0, 1, 0, 5>>

\* the wealth series that goes with cost series c in the sample data
WealthOf(c) == [t \in 1..NumYears |-> 3 - c[t]]

\* row j of file m: the cost and wealth_25_50 files follow series c, the two
\* others WealthOf(c); files and rows are shifted apart so that no two rows
\* of the data are equal
SampleRow(m, j, key, c, tot) ==
    [col \in Range(TableCols) |->
        IF col \in DOMAIN key THEN key[col]
        ELSE IF col = "Total" THEN tot + m + 10 * j
        ELSE LET t == ColPos(YearCols, col)
             IN  (IF m \in {1, 4} THEN c[t] ELSE WealthOf(c)[t])
                 + FileOffset[m] + 4 * (j - 1)]

\* the end-to-end scenario of the spec: year-0 values -100, 10, 5, 15 and
\* year-1 values -20, 2, 1, 3 for cost, wealth_25, wealth_25_50, total_wealth
ExampleYear0 == <<-400, 60, 40, 20>>
ExampleYear1 == <<-80, 12, 8, 4>>

ExampleKey == Key(3, 50, 3, 85, 30, 3)

ExampleFile(m, tot) ==
    << [col \in Range(TableCols) |->
           IF col \in DOMAIN ExampleKey THEN ExampleKey[col]
           ELSE IF col = "Total" THEN tot
           ELSE IF col = YearCols[1] THEN ExampleYear0[m]
           ELSE IF col = YearCols[2] THEN ExampleYear1[m]
           ELSE 0] >>

SampleFile(m, ks, short, c, tot) ==
    LET n == IF short = m /\ Len(ks) > 0 THEN Len(ks) - 1 ELSE Len(ks)
    IN  [j \in 1..n |-> SampleRow(m, j, ks[j], c, tot)]

\* ------------------------------------------------------------------------
\* Requests
\* ------------------------------------------------------------------------

\* the values the controls of the layout offer
MatchOptions == {3, 4, 5}
PhaseoutOptions == {1, 2}
LeakageMarks == {0, 10, 20, 30, 40}
TakeupOptions == {70, 85, 100}
RateOptions == {3, 5, 7}

\* the values update is called with: offered ones and, for each control but
\* rate, one that is not offered
MatchInputs == {3, 6}
PhaseoutInputs == {1, 2, 3}
LeakageInputs == {30, 50}
TakeupInputs == {85, 90}
RateInputs == {3, 5}

Requests ==
    [match : MatchInputs, phaseout : PhaseoutInputs, leakage : LeakageInputs,
     takeup : TakeupInputs, rate : RateInputs]

\* ------------------------------------------------------------------------
\* Behaviour
\* ------------------------------------------------------------------------

\* the module-level reads of the four files, then no request made yet
Init ==
    /\ \/ \E ks \in KeySeqs, short \in Incomplete, c \in SeriesSet, tot \in TotalVals :
             /\ cost_df = read_data(SampleFile(1, ks, short, c, tot))
             /\ total_wealth_df = read_data(SampleFile(2, ks, short, c, tot))
             /\ wealth_25_df = read_data(SampleFile(3, ks, short, c, tot))
             /\ wealth_25_50_df = read_data(SampleFile(4, ks, short, c, tot))
       \/ \E tot \in TotalVals :
             /\ cost_df = read_data(ExampleFile(1, tot))
             /\ total_wealth_df = read_data(ExampleFile(2, tot))
             /\ wealth_25_df = read_data(ExampleFile(3, tot))
             /\ wealth_25_50_df = read_data(ExampleFile(4, tot))
    /\ request = <<>>
    /\ lookup = <<>>
    /\ cost_filter = NoFrame
    /\ total_wealth_filter = NoFrame
    /\ wealth_25_filter = NoFrame
    /\ wealth_25_50_filter = NoFrame
    /\ sum_df = NoFrame
    /\ agg_df = NoFrame
    /\ fig = NoFig
    /\ data_table = <<>>
    /\ columns = <<>>
    /\ raised = ""
    /\ answered_after_failure = FALSE

\* one invocation of the update callback, from its arguments to its return
\* or its exception; the module-level tables become what the call leaves of
\* them
Update(match, phaseout, leakage, takeup, rate) ==
    \E u \in {update(match, phaseout, leakage, takeup, rate)} :
        /\ request' = <<[match |-> match, phaseout |-> phaseout, leakage |-> leakage,
                         takeup |-> takeup, rate |-> rate]>>
        /\ lookup' = u.lookup
        /\ cost_filter' = u.filters.cost_filter
        /\ total_wealth_filter' = u.filters.total_wealth_filter
        /\ wealth_25_filter' = u.filters.wealth_25_filter
        /\ wealth_25_50_filter' = u.filters.wealth_25_50_filter
        /\ sum_df' = u.sum_df
        /\ agg_df' = u.agg_df
        /\ fig' = u.fig
        /\ data_table' = u.data_table
        /\ columns' = u.columns
        /\ raised' = u.raised
        /\ cost_df' = u.tables.cost_df
        /\ total_wealth_df' = u.tables.total_wealth_df
        /\ wealth_25_df' = u.tables.wealth_25_df
        /\ wealth_25_50_df' = u.tables.wealth_25_50_df
        /\ answered_after_failure' = (request # <<>> /\ raised # "" /\ u.raised = "")

Next ==
    \E match \in MatchInputs, phaseout \in PhaseoutInputs, leakage \in LeakageInputs,
       takeup \in TakeupInputs, rate \in RateInputs :
        Update(match, phaseout, leakage, takeup, rate)

Spec == Init /\ [][Next]_vars

\* ------------------------------------------------------------------------
\* Vocabulary of the properties
\* ------------------------------------------------------------------------

\* the arguments of the lookup the last request made
Args == lookup[1]

\* a row whose six parameter columns equal the arguments a
Matches(row, a) == \A p \in Range(ParamCols) : row[p] = a[p]

\* the positions of the rows of df that match a
Hits(df, a) == {i \in 1..Len(df.data) : Matches(df.data[i], a)}

\* the loaded tables, in the order filter_data stacks and labels them
TablesInLabelOrder == <<cost_df, wealth_25_df, wealth_25_50_df, total_wealth_df>>

\* each table with the selection filter_data made from it
Selections ==
    { <<cost_df, cost_filter>>, <<total_wealth_df, total_wealth_filter>>,
      <<wealth_25_df, wealth_25_filter>>, <<wealth_25_50_df, wealth_25_50_filter>> }

\* every table holds the combination asked for
AllHold == \A m \in 1..4 : Hits(TablesInLabelOrder[m], Args) # {}

\* the row of the m-th table (label order) that the request selects
SourceRow(m) ==
    LET df == TablesInLabelOrder[m]
    IN  df.data[CHOOSE i \in 1..Len(df.data) : Matches(df.data[i], Args)]

RECURSIVE PrefixSum(_, _)
PrefixSum(row, t) == IF t = 0 THEN 0 ELSE PrefixSum(row, t - 1) + row[YearCols[t]]

Magnitude(x) == IF x >= 0 THEN x ELSE 0 - x

\* t tenths and x quarters are the same number
SameValue(t, x) == 2 * t = 5 * x

\* t tenths is x quarters rounded to one decimal: the whole tenth nearest to
\* x, the even one of the two when x lies halfway (compared in twentieths)
IsRoundedTenth(t, x) ==
    /\ Magnitude(2 * t - 5 * x) <= 1
    /\ Magnitude(2 * t - 5 * x) = 1 => t % 2 = 0

InDomain(q) ==
    /\ q.match \in MatchOptions
    /\ q.phaseout \in PhaseoutOptions
    /\ q.leakage \in LeakageMarks
    /\ q.takeup \in TakeupOptions
    /\ q.rate \in RateOptions

\* the arguments a request with a supported phaseout selector looks up
RefArgs(q) ==
    [match_rt |-> q.match,
     phaseout_start |-> IF q.phaseout = 1 THEN 50 ELSE 67,
     phaseout_rt |-> IF q.phaseout = 1 THEN 3 ELSE 5,
     takeup_rt |-> q.takeup, leakage |-> q.leakage, roi |-> q.rate]

\* the row of the m-th table (label order) whose parameters are a
RefRow(m, a) ==
    LET df == TablesInLabelOrder[m]
    IN  df.data[CHOOSE i \in 1..Len(df.data) : Matches(df.data[i], a)]

\* nothing was returned
NothingReturned == data_table = <<>> /\ columns = <<>> /\ fig.data = <<>>

\* the table and the figure returned are the ones that the rows a of the
\* four tables fix: labels, rounded per-year and Total values, and the
\* rounded absolute running sums of the total_wealth and the cost rows
ReturnedFor(a) ==
    /\ [j \in 1..Len(columns) |-> columns[j].id] = <<"">> \o YearCols \o <<"Total">>
    /\ [j \in 1..Len(columns) |-> columns[j].name] = <<"">> \o YearCols \o <<"Total">>
    /\ Len(data_table) = 4
    /\ \A m \in 1..4 :
          /\ DOMAIN data_table[m] = {""} \cup Range(YearCols) \cup {"Total"}
          /\ data_table[m][""] = MetricLabels[m]
          /\ \A y \in Range(YearCols) \cup {"Total"} :
                IsRoundedTenth(data_table[m][y], RefRow(m, a)[y])
    /\ Len(fig.data) = 2
    /\ fig.data[1].name = "Wealth (bn)" /\ fig.data[2].name = "Cost (bn)"
    /\ \A k \in 1..2 :
          /\ fig.data[k].x = YearCols
          /\ Len(fig.data[k].y) = NumYears
          /\ \A t \in 1..NumYears :
                IsRoundedTenth(fig.data[k].y[t],
                               Magnitude(PrefixSum(RefRow(IF k = 1 THEN 4 ELSE 1, a), t)))

\* the outcome of the last request is the one its parameters and the tables
\* fix: no other outcome satisfies this for the same request and tables
Determined ==
    request # <<>> =>
        LET q == request[1]
        IN  IF q.phaseout \notin {1, 2}
            THEN raised = "UnboundLocalError" /\ lookup = <<>> /\ NothingReturned
            ELSE /\ lookup = <<RefArgs(q)>>
                 /\ IF \E m \in 1..4 : Hits(TablesInLabelOrder[m], RefArgs(q)) = {}
                    THEN raised = "ValueError" /\ NothingReturned
                    ELSE raised = "" /\ ReturnedFor(RefArgs(q))

\* the tables are those of the end-to-end scenario
IsExample ==
    /\ Len(cost_df.data) = 1
    /\ \A m \in 1..4 :
          /\ Len(TablesInLabelOrder[m].data) = 1
          /\ TablesInLabelOrder[m].data[1][YearCols[1]] = <<-400, 40, 20, 60>>[m]
          /\ TablesInLabelOrder[m].data[1][YearCols[2]] = <<-80, 8, 4, 12>>[m]

\* ------------------------------------------------------------------------
\* Properties
\* ------------------------------------------------------------------------

\* C1: a lookup for which some table has no row matching all six fields
\* signals ScenarioNotFound to the caller.  The code raises ValueError from
\* the relabelling of the stacked frame instead, after the empty selection
\* has been stacked.
C1_NotFoundSignalled ==
    (lookup # <<>> /\ ~AllHold) => raised = "ScenarioNotFound"

\* C2: each selection holds exactly the rows of its table whose six
\* parameter fields all equal the arguments of the lookup: every selected row
\* matches on all six, is a row of the table with its label, and no matching
\* row is left out.
C2_ExactMatch ==
    lookup # <<>> =>
        \A sel \in Selections :
            LET df == sel[1]
                f == sel[2]
            IN  /\ f.columns = df.columns
                /\ \A r \in 1..Len(f.data) :
                      /\ Matches(f.data[r], Args)
                      /\ \E i \in 1..Len(df.data) :
                            f.data[r] = df.data[i] /\ f.index[r] = df.index[i]
                /\ \A i \in Hits(df, Args) :
                      \E r \in 1..Len(f.data) :
                          f.data[r] = df.data[i] /\ f.index[r] = df.index[i]
                /\ Len(f.data) = Cardinality(Hits(df, Args))

\* C2 witness: a lookup selected a row of the cost table while leaving out a
\* row that agrees with the arguments on every field but roi
C2_Witness ==
    /\ lookup # <<>>
    /\ Len(cost_filter.data) = 1
    /\ \E i \in 1..Len(cost_df.data) :
          /\ cost_df.data[i]["roi"] # Args["roi"]
          /\ \A p \in Range(ParamCols) \ {"roi"} : cost_df.data[i][p] = Args[p]

\* C3: when every table holds the combination, one row is selected per
\* metric and the stacked frame has exactly four rows, taken from the cost,
\* wealth_25, wealth_25_50 and total_wealth tables and labelled in that order.
C3_OneRowPerMetric ==
    (lookup # <<>> /\ AllHold) =>
        /\ raised = ""
        /\ \A sel \in Selections : Len(sel[2].data) = 1
        /\ Len(sum_df.data) = 4
        /\ sum_df.index = MetricLabels
        /\ \A m \in 1..4 :
              \A col \in Range(YearCols) \cup {"Total"} :
                  sum_df.data[m][col] = SourceRow(m)[col]

\* C3 witness: a lookup of a combination that all four tables hold, among
\* other rows
C3_Witness ==
    /\ lookup # <<>>
    /\ AllHold
    /\ \A m \in 1..4 : Len(TablesInLabelOrder[m].data) >= 2
    /\ Len(sum_df.data) = 4

\* C4: for each metric, the aggregated series is the absolute value of the
\* running sum of that metric's own per-year values, in year order; the
\* end-to-end scenario gives 100, 120 / 10, 12 / 5, 6 / 15, 18 (in quarters:
\* 400, 480 / 40, 48 / 20, 24 / 60, 72).
C4_CumulativeAbsolute ==
    (lookup # <<>> /\ raised = "") =>
        /\ agg_df.index = MetricLabels
        /\ \A m \in 1..4 :
              \A t \in 1..NumYears :
                  agg_df.data[m][YearCols[t]] = Magnitude(PrefixSum(SourceRow(m), t))
        /\ IsExample =>
              /\ agg_df.data[1][YearCols[1]] = 400 /\ agg_df.data[1][YearCols[2]] = 480
              /\ agg_df.data[2][YearCols[1]] = 40 /\ agg_df.data[2][YearCols[2]] = 48
              /\ agg_df.data[3][YearCols[1]] = 20 /\ agg_df.data[3][YearCols[2]] = 24
              /\ agg_df.data[4][YearCols[1]] = 60 /\ agg_df.data[4][YearCols[2]] = 72

\* C4 witness: an aggregation in which the cost row changes sign along the
\* years and differs from the wealth rows
C4_Witness ==
    /\ lookup # <<>>
    /\ raised = ""
    /\ sum_df.data[1][YearCols[1]] < 0
    /\ sum_df.data[1][YearCols[2]] > 0
    /\ sum_df.data[2][YearCols[1]] # sum_df.data[1][YearCols[1]]
    /\ agg_df.data[1][YearCols[2]] < agg_df.data[1][YearCols[1]]

\* a stacked frame with every Total value replaced by v
WithTotal(df, v) ==
    [df EXCEPT !.data = [r \in 1..Len(df.data) |-> [df.data[r] EXCEPT !["Total"] = v]]]

\* C5: the aggregated output has no Total entry, neither have the traces of
\* the figure, and its values do not depend on the Total values of the
\* selected rows: the same rows with any other Total aggregate to the same
\* frame.
C5_TotalExcluded ==
    (lookup # <<>> /\ raised = "") =>
        /\ "Total" \notin Range(agg_df.columns)
        /\ \A r \in 1..Len(agg_df.data) : "Total" \notin DOMAIN agg_df.data[r]
        /\ \A k \in 1..Len(fig.data) :
              /\ "Total" \notin Range(fig.data[k].x)
              /\ Len(fig.data[k].y) = NumYears
        /\ \A v \in {0, 1, -5000} : aggregate(WithTotal(sum_df, v)) = agg_df

\* C5 witness: an aggregation of rows whose Total values are not zero
C5_Witness ==
    /\ lookup # <<>>
    /\ raised = ""
    /\ \A m \in 1..4 : sum_df.data[m]["Total"] > 700
    /\ Len(agg_df.data) = 4

\* C6: a metric whose per-year values are all zero aggregates to all zero,
\* and one whose per-year values are all strictly negative aggregates to a
\* series that is strictly positive and strictly increasing.
C6_ZeroAndNegativeSeries ==
    (lookup # <<>> /\ raised = "") =>
        \A m \in 1..4 :
            /\ (\A t \in 1..NumYears : sum_df.data[m][YearCols[t]] = 0)
                  => \A t \in 1..NumYears : agg_df.data[m][YearCols[t]] = 0
            /\ (\A t \in 1..NumYears : sum_df.data[m][YearCols[t]] < 0)
                  => /\ \A t \in 1..NumYears : agg_df.data[m][YearCols[t]] > 0
                     /\ \A t \in 1..(NumYears - 1) :
                           agg_df.data[m][YearCols[t + 1]] > agg_df.data[m][YearCols[t]]

\* C6 witness: an aggregation with a strictly negative cost row and an
\* all-zero wealth_25_50 row
C6_Witness ==
    /\ lookup # <<>>
    /\ raised = ""
    /\ \A t \in 1..NumYears : sum_df.data[1][YearCols[t]] < 0
    /\ \A t \in 1..NumYears : sum_df.data[3][YearCols[t]] = 0
    /\ \A t \in 1..NumYears : agg_df.data[3][YearCols[t]] = 0

\* C7: a request with a parameter outside the domain its control declares
\* surfaces ValidationError before any lookup is made.  The code has no such
\* check: it passes the value on to the lookup (or, for the phaseout
\* selector, fails on the unbound local).
C7_ValidationSurfaced ==
    (request # <<>> /\ ~InDomain(request[1])) =>
        (raised = "ValidationError" /\ lookup = <<>>)

\* the shape of the table update returns: four rows labelled with the
\* metrics, no parameter column, every year column of the source
TableShape ==
    /\ Len(data_table) = 4
    /\ \A m \in 1..4 :
          /\ data_table[m][""] = MetricLabels[m]
          /\ DOMAIN data_table[m] \cap Range(ParamCols) = {}
          /\ Range(YearCols) \subseteq DOMAIN data_table[m]
    /\ Range(ParamCols) \cap {columns[j].id : j \in 1..Len(columns)} = {}
    /\ Cardinality({j \in 1..Len(columns) : columns[j].id \in Range(YearCols)}) = NumYears

\* C8 as claimed: the table holds the per-year values of the selected source
\* rows themselves.  It fails on the code: the table is sum_df.round(1).
C8_TableHoldsSourceValues ==
    (lookup # <<>> /\ raised = "") =>
        /\ TableShape
        /\ \A m \in 1..4 :
              \A y \in Range(YearCols) : SameValue(data_table[m][y], SourceRow(m)[y])

\* C8 as amended: the table holds, for each of the four metric rows, the
\* per-year values of the selected source row rounded to one decimal (not
\* cumulative, not sign-normalized), without the six parameter columns;
\* computing the aggregated series leaves the per-year values of the stacked
\* frame as they are in the source.
C8_TableHoldsRoundedValues ==
    (lookup # <<>> /\ raised = "") =>
        /\ TableShape
        /\ \A m \in 1..4 :
              \A y \in Range(YearCols) :
                  /\ IsRoundedTenth(data_table[m][y], SourceRow(m)[y])
                  /\ sum_df.data[m][y] = SourceRow(m)[y]

\* C8 witness: a table returned for source rows with negative values, with
\* values that rounding changes and with running sums that differ from the
\* values
C8_Witness ==
    /\ lookup # <<>>
    /\ raised = ""
    /\ Len(data_table) = 4
    /\ data_table[1][YearCols[1]] < 0
    /\ ~SameValue(data_table[1][YearCols[1]], SourceRow(1)[YearCols[1]])
    /\ data_table[1][YearCols[2]] < 0
    /\ agg_df.data[1][YearCols[2]] # Magnitude(SourceRow(1)[YearCols[2]])

\* C9: the slow selector (1) yields (0.5, 0.03), the fast one (2) yields
\* (0.67, 0.05), no lookup is made with another selector value, and match,
\* takeup, leakage and rate reach the lookup unchanged as match_rt,
\* takeup_rt, leakage and roi.
C9_PhaseoutDerived ==
    request # <<>> =>
        /\ lookup # <<>> <=> request[1].phaseout \in {1, 2}
        /\ lookup # <<>> =>
              /\ request[1].phaseout = 1 =>
                    (Args.phaseout_start = 50 /\ Args.phaseout_rt = 3)
              /\ request[1].phaseout = 2 =>
                    (Args.phaseout_start = 67 /\ Args.phaseout_rt = 5)
              /\ Args.match_rt = request[1].match
              /\ Args.takeup_rt = request[1].takeup
              /\ Args.leakage = request[1].leakage
              /\ Args.roi = request[1].rate

\* C9 witness: a request with the fast selector whose lookup found its rows
C9_Witness ==
    /\ request # <<>>
    /\ request[1].phaseout = 2
    /\ lookup # <<>>
    /\ raised = ""

\* C10: every request, whatever the requests before it, leaves the four
\* tables as they were loaded, and its outcome (exception or table and
\* figure) is the one that its own parameters and the tables fix.
C10_TablesAndRequestsIndependent ==
    /\ [][tables' = tables]_vars
    /\ []Determined

\* C10 witness: a request answered with a table right after a request that
\* raised, against tables that hold several rows
C10_Witness ==
    /\ answered_after_failure
    /\ request # <<>>
    /\ raised = ""
    /\ Len(data_table) = 4
    /\ Len(cost_df.data) = MaxRows

====
